---- MODULE Spec2Model ----
(***************************************************************************)
(* Model of go-floki/sessions (src/sessions.go): the per-request Registry  *)
(* of named Sessions, the Session operations with dirty tracking and       *)
(* flashes, the Sessions middleware with its flushSession teardown hook,   *)
(* and Registry.Save with its MultiError.                                  *)
(*                                                                         *)
(* One request context is modelled.  Sessions are heap objects identified  *)
(* by their position in heap, so that "the identical instance" is a        *)
(* comparison of identifiers and not of contents.  The Store is an         *)
(* external capability: the outcome of Store.New and of Store.Save is an   *)
(* input of the action that calls it.                                      *)
(***************************************************************************)
EXTENDS Integers, Sequences, FiniteSets, TLC

VARIABLES
    heap,        \* Seq of Session objects; a *Session is an index into it
    sessions,    \* Registry.sessions: name -> sessionInfo [s, e]
    regCreated,  \* context slot "_sessionReg" holds the Registry
    ctxSession,  \* context slot "_session": a *Session, 0 when unset
    hooks,       \* number of flushSession hooks given to c.BeforeDestroy
    hookPos,     \* number of hooks already run by the teardown
    status,      \* "running", "teardown", "done", "panic", "fatal"
    newCalls,    \* the stores' record of Store.New calls, per name
    flushSaves,  \* Store.Save calls made by flushSession, per *Session
    mutated,     \* history: the *Sessions a mutating operation was called on
    installed,   \* history: the *Sessions the Sessions middleware has mapped
    added,       \* history: per *Session and key, the values the store loaded
                 \* and AddFlash added, in order, since the last Flashes of
                 \* the key; kept while the key is not in tainted
    given,       \* history: per *Session and key, the set of values the store
                 \* loaded and AddFlash was given since the last Flashes of
                 \* the key
    tainted,     \* history: the <<*Session, key>> whose entry was, since the
                 \* last Flashes of the key, written by Set or Delete or
                 \* given a slice that shares its backing array with another
    slot,        \* per request context, its slot "_sessionReg": 0 for nil,
                 \* or the *Registry stored there
    registries,  \* the Registry objects created by GetRegistry, in order
    lastReg,     \* the last GetRegistry call: its context and its result
    lastOp       \* the last operation, what it returned and what it called

vars == <<heap, sessions, regCreated, ctxSession, hooks, hookPos, status,
          newCalls, flushSaves, mutated, installed, added, given, tainted,
          slot, registries, lastReg, lastOp>>

\* The state of the request contexts, as GetRegistry sees them.
ctxVars == <<slot, registries, lastReg>>

----------------------------------------------------------------------------
(* Bounds *)

\* Session objects the stores may allocate in one request.
MaxSessions == 3
\* Installations of the Sessions middleware in one handler chain.
MaxInstalls == 2
\* Length of a flash sequence AddFlash may build under one key.
MaxFlashLen == 2
\* Store.New calls per name the stores' record can count.
MaxNewCalls == 2
\* Slots of a MultiError whose Error() is called.
MaxErrs == 4

----------------------------------------------------------------------------
(* Inputs *)

\* const flashesKey = "_flash"
flashesKey == "_flash"

\* Registered session names, and the Store values handed to the registry,
\* of the registry specification (Spec).
Names == {"A", "B"}
Stores == {"s1", "s2"}
\* A nil Store interface value.
NilStore == "nil"
StoreArgs == Stores \cup {NilStore}

\* Those of the session specification (SpecSession): one session.
\* Request contexts.
Contexts == {"c1", "c2"}

SessionNames == {"A"}
SessionStoreArgs == {"s1", NilStore}

\* Keys used by handlers: the default flash key and one other key, which
\* handlers use both as a flash key and as an ordinary key.
Keys == {flashesKey, "custom"}
\* The registry specification writes one key only.
RegistryKeys == {"custom"}

\* error values: nil, or the error of a failing Store.New
NilErr == "nil"
NewErr == "store.New failed"

\* interface{} values: nil, a non-slice value, or a []interface{}.  A slice
\* is its elements seq, its capacity cap and its backing array arr: slices
\* with the same arr # 0 share their storage (they all start at its first
\* element).  arr = 0 stands for an array that is never written again: every
\* slice of it is full (len = cap), so append copies before it writes.
NilVal == [kind |-> "nil", s |-> "", seq |-> <<>>, arr |-> 0, cap |-> 0]
Scalar(x) == [kind |-> "scalar", s |-> x, seq |-> <<>>, arr |-> 0, cap |-> 0]
SliceOn(a, q, c) == [kind |-> "slice", s |-> "", seq |-> q, arr |-> a, cap |-> c]
\* A full slice; Slice(<<>>) is the nil slice.
Slice(q) == SliceOn(0, q, Len(q))

FlashValues == {"v1", "v2"}
\* Values a caller builds for Set: a non-slice and a full slice.
SetValues == {Scalar("x"), Slice(<<"v2">>)}
RegistrySetValues == {Scalar("x")}

\* make(map[interface{}]interface{})
EmptyValues == [k \in {} |-> NilVal]

\* What a Store.New may hand back in Values: nothing (a new session), or a
\* loaded session with one pending flash under the default key, decoded
\* into a slice without spare capacity.
LoadedValues == {EmptyValues, [k \in {flashesKey} |-> Slice(<<"v1">>)]}

----------------------------------------------------------------------------
(* Session *)

\* NewSession is called by session stores to create a new session instance.
NewSession(store, name, values) ==
    [Values |-> values, store |-> store, name |-> name, dirty |-> FALSE]

\* delete(m, key)
MapDelete(m, key) == [k \in (DOMAIN m) \ {key} |-> m[k]]

\* m[key] = val
MapSet(m, key, val) == [k \in (DOMAIN m) \cup {key} |-> IF k = key THEN val ELSE m[k]]

\* func (s *Session) Get(key interface{}) interface{}
SessionGet(sess, key) ==
    IF key \in DOMAIN sess.Values THEN sess.Values[key] ELSE NilVal

\* Set replacing the whole map by the one entry.
SessionSetOnlyKey(sess, key, val) ==
    [sess EXCEPT !.Values = MapSet(EmptyValues, key, val), !.dirty = TRUE]

\* func (s *Session) Set(key interface{}, val interface{})
SessionSet(sess, key, val) ==
    [sess EXCEPT !.Values = MapSet(sess.Values, key, val), !.dirty = TRUE]

SessionDeleteIfPresent(sess, key) ==
    [sess EXCEPT !.Values = MapDelete(sess.Values, key),
                 !.dirty = sess.dirty \/ key \in DOMAIN sess.Values]

\* func (s *Session) Delete(key interface{})
SessionDelete(sess, key) ==
    [sess EXCEPT !.Values = MapDelete(sess.Values, key), !.dirty = TRUE]

\* v.([]interface{}) panics unless v holds a []interface{}
IsSlice(v) == v.kind = "slice"

\* The backing arrays the stored slices refer to, and one not among them.
UsedArrs ==
    UNION {{heap[s].Values[k].arr : k \in DOMAIN heap[s].Values} : s \in 1..Len(heap)}
FreshArr ==
    CHOOSE n \in 1..(Cardinality(UsedArrs) + 1) :
        n \notin UsedArrs /\ \A m \in 1..(n - 1) : m \in UsedArrs

\* The capacity append allocates when a []interface{} of capacity c is full.
GrowCap(c) == IF c = 0 THEN 1 ELSE 2 * c

\* Element idx of backing array a is written: every slice of the map that
\* shares the array and reaches that element shows the new value.
WriteValues(values, a, idx, v) ==
    [k \in DOMAIN values |->
        IF a # 0 /\ values[k].arr = a /\ Len(values[k].seq) >= idx
        THEN [values[k] EXCEPT !.seq[idx] = v]
        ELSE values[k]]

\* The same write, seen by the sessions of heap h.
WriteThrough(h, a, idx, v) ==
    [s \in 1..Len(h) |-> [h[s] EXCEPT !.Values = WriteValues(@, a, idx, v)]]

\* AddFlash putting the new value in front of the stored ones.
SessionAddFlashPrepend(sess, value, key) ==
    LET present == key \in DOMAIN sess.Values
        bad == present /\ ~IsSlice(sess.Values[key])
        flashes == IF present /\ ~bad THEN sess.Values[key].seq ELSE <<>>
    IN  IF bad
        THEN [panic |-> TRUE, sess |-> sess, arr |-> 0, idx |-> 0]
        ELSE [panic |-> FALSE,
              sess |-> [sess EXCEPT !.Values =
                           MapSet(sess.Values, key, Slice(<<value>> \o flashes))],
              arr |-> 0, idx |-> 0]

\* func (s *Session) AddFlash(value interface{}, vars ...string)
\* The result is [panic, sess, arr, idx]: the type assertion of line 130
\* panics when the value under key is not a []interface{}.  append (line
\* 132) writes element idx of backing array arr in place when the stored
\* slice has spare capacity (arr = 0 when it copies to a new array instead);
\* sess shows the write in every entry of this session that shares the array.
SessionAddFlash(sess, value, key) ==
    LET present == key \in DOMAIN sess.Values
        bad == present /\ ~IsSlice(sess.Values[key])
        flashes == IF present /\ ~bad THEN sess.Values[key] ELSE Slice(<<>>)
        idx == Len(flashes.seq) + 1
        inPlace == Len(flashes.seq) < flashes.cap
        grown == GrowCap(flashes.cap)
        appended ==
            IF inPlace
            THEN SliceOn(flashes.arr, Append(flashes.seq, value), flashes.cap)
            ELSE SliceOn(IF idx = grown THEN 0 ELSE FreshArr,
                         Append(flashes.seq, value), grown)
        written == IF inPlace THEN flashes.arr ELSE 0
    IN  IF bad
        THEN [panic |-> TRUE, sess |-> sess, arr |-> 0, idx |-> 0]
        ELSE [panic |-> FALSE,
              sess |-> [sess EXCEPT !.Values =
                           MapSet(WriteValues(sess.Values, written, idx, value),
                                  key, appended)],
              arr |-> written, idx |-> idx]

\* Flashes marking the session dirty on every call.
SessionFlashesMarksDirty(sess, key) ==
    IF key \in DOMAIN sess.Values
    THEN LET v == sess.Values[key]
             dropped == [sess EXCEPT !.Values = MapDelete(sess.Values, key),
                                     !.dirty = TRUE]
         IN  [panic |-> ~IsSlice(v), sess |-> dropped,
              ret |-> IF IsSlice(v) THEN v.seq ELSE <<>>]
    ELSE [panic |-> FALSE, sess |-> [sess EXCEPT !.dirty = TRUE], ret |-> <<>>]

\* func (s *Session) Flashes(vars ...string) []interface{}
\* The result is [panic, sess, ret]: line 113 deletes the key before the type
\* assertion of line 114, which panics when the value is not a []interface{}.
SessionFlashes(sess, key) ==
    IF key \in DOMAIN sess.Values
    THEN LET v == sess.Values[key]
             dropped == [sess EXCEPT !.Values = MapDelete(sess.Values, key)]
         IN  [panic |-> ~IsSlice(v), sess |-> dropped,
              ret |-> IF IsSlice(v) THEN v.seq ELSE <<>>]
    ELSE [panic |-> FALSE, sess |-> sess, ret |-> <<>>]

----------------------------------------------------------------------------
(* Store calls *)

\* The error of a failing Store.Save.
SaveFailed == "store.Save failed"

\* One Store.Save(c, session) call as the store sees it: the session, the
\* store it reached, the session's dirty flag at the time of the call, and
\* whether the store returned an error.
SaveCall(sid, sess, failed) ==
    [s |-> sid, store |-> sess.store, dirty |-> sess.dirty, failed |-> failed]

----------------------------------------------------------------------------
(* Registry *)

Range(q) == {q[i] : i \in DOMAIN q}

\* sessionInfo stores a session tracked by the registry.
SessionInfo(sid, err) == [s |-> sid, e |-> err]

Tracked == DOMAIN sessions

\* heap with field store of session sid set to store
BindStore(h, sid, store) == [h EXCEPT ![sid].store = store]

\* A Registry.Get that asks the store again on every call.
RegistryGetNoCache(store, name, err, loaded) ==
    IF store = NilStore
    THEN [panic |-> TRUE, heap |-> heap, sessions |-> sessions,
          newCalls |-> newCalls, s |-> 0, e |-> NilErr]
    ELSE LET sid == Len(heap) + 1
         IN  [panic |-> FALSE,
              heap |-> Append(heap, NewSession(store, name, loaded)),
              sessions |-> MapSet(sessions, name, SessionInfo(sid, err)),
              newCalls |-> [newCalls EXCEPT ![name] = @ + 1],
              s |-> sid, e |-> err]

\* A Registry.Get that binds the store only when it creates the session.
RegistryGetBindOnMiss(store, name, err, loaded) ==
    IF name \in Tracked
    THEN [panic |-> FALSE, heap |-> heap,
          sessions |-> sessions, newCalls |-> newCalls,
          s |-> sessions[name].s, e |-> sessions[name].e]
    ELSE RegistryGetNoCache(store, name, err, loaded)

\* A Registry.Get that renames the session it returns after the store.
RegistryGetRenames(store, name, err, loaded) ==
    IF name \in Tracked
    THEN [panic |-> FALSE,
          heap |-> [BindStore(heap, sessions[name].s, store)
                       EXCEPT ![sessions[name].s].name = store],
          sessions |-> sessions, newCalls |-> newCalls,
          s |-> sessions[name].s, e |-> sessions[name].e]
    ELSE RegistryGetNoCache(store, name, err, loaded)

\* A Registry.Get that does not keep the error of a failed Store.New.
RegistryGetDropErr(store, name, err, loaded) ==
    IF name \in Tracked
    THEN [panic |-> FALSE,
          heap |-> BindStore(heap, sessions[name].s, store),
          sessions |-> sessions, newCalls |-> newCalls,
          s |-> sessions[name].s, e |-> NilErr]
    ELSE RegistryGetNoCache(store, name, err, loaded)

\* func (s *Registry) Get(store Store, name string) (session *Session, err error)
\* err and loaded are what store.New returns when it is called.  The result
\* is the new heap, sessions and Store.New record, the returned pair (s, e),
\* and panic: store.New on a nil Store is a nil dereference.
RegistryGet(store, name, err, loaded) ==
    IF name \in Tracked
    THEN [panic |-> FALSE,
          heap |-> BindStore(heap, sessions[name].s, store),
          sessions |-> sessions, newCalls |-> newCalls,
          s |-> sessions[name].s, e |-> sessions[name].e]
    ELSE IF store = NilStore
    THEN [panic |-> TRUE, heap |-> heap, sessions |-> sessions,
          newCalls |-> newCalls, s |-> 0, e |-> NilErr]
    ELSE LET sid == Len(heap) + 1
         IN  [panic |-> FALSE,
              \* store.New, session.name = name, session.store = store
              heap |-> Append(heap, NewSession(store, name, loaded)),
              sessions |-> MapSet(sessions, name, SessionInfo(sid, err)),
              newCalls |-> [newCalls EXCEPT ![name] = @ + 1],
              s |-> sid, e |-> err]

\* The component errors Registry.Save appends to errMulti.
MissingStoreErr(name) == [kind |-> "missing store", name |-> name]
SavingErr(name) == [kind |-> "error saving", name |-> name]

\* A loop body that records nothing for a session without a store.
SaveStepSkipMissing(acc, name, failing) ==
    LET sid == sessions[name].s
        sess == heap[sid]
    IN  IF sess.store = NilStore
        THEN acc
        ELSE [calls |-> Append(acc.calls, SaveCall(sid, sess, name \in failing)),
              errs |-> IF name \in failing
                       THEN Append(acc.errs, SavingErr(name))
                       ELSE acc.errs]

\* A loop body that keeps only the first error.
SaveStepFirstErrorOnly(acc, name, failing) ==
    LET sid == sessions[name].s
        sess == heap[sid]
    IN  IF sess.store = NilStore
        THEN [acc EXCEPT !.errs = IF @ = <<>> THEN <<MissingStoreErr(name)>> ELSE @]
        ELSE [calls |-> Append(acc.calls, SaveCall(sid, sess, name \in failing)),
              errs |-> IF name \in failing /\ acc.errs = <<>>
                       THEN <<SavingErr(name)>>
                       ELSE acc.errs]

\* One iteration of the loop of Registry.Save, lines 218-225: `failing` are
\* the names for whose session Store.Save returns an error.
SaveStep(acc, name, failing) ==
    LET sid == sessions[name].s
        sess == heap[sid]
    IN  IF sess.store = NilStore
        THEN [acc EXCEPT !.errs = Append(@, MissingStoreErr(name))]
        ELSE [calls |-> Append(acc.calls, SaveCall(sid, sess, name \in failing)),
              errs |-> IF name \in failing
                       THEN Append(acc.errs, SavingErr(name))
                       ELSE acc.errs]

RECURSIVE SaveLoopStopAtError(_, _, _)
SaveLoopStopAtError(order, failing, acc) ==
    IF order = <<>> \/ acc.errs # <<>> THEN acc
    ELSE SaveLoopStopAtError(Tail(order), failing, SaveStep(acc, Head(order), failing))

RECURSIVE SaveLoop(_, _, _)
\* for name, info := range s.sessions { ... }, over the names in `order`
SaveLoop(order, failing, acc) ==
    IF order = <<>> THEN acc
    ELSE SaveLoop(Tail(order), failing, SaveStep(acc, Head(order), failing))

\* The orders in which range may visit the keys of a map.
RangeOrders(S) ==
    {q \in [1..Cardinality(S) -> S] : \A i, j \in DOMAIN q : i # j => q[i] # q[j]}

\* The error value a MultiError is returned as; its components are errs.
MultiErr == "MultiError"

\* if errMulti != nil { return errMulti }; return nil
\* errMulti is nil exactly when nothing was appended to it.
SaveReturn(acc) ==
    [calls |-> acc.calls, errs |-> acc.errs,
     e |-> IF acc.errs # <<>> THEN MultiErr ELSE NilErr]

\* A Registry.Save that returns at the first failure.
RegistrySaveStopAtError(order, failing) ==
    SaveReturn(SaveLoopStopAtError(order, failing, [calls |-> <<>>, errs |-> <<>>]))

\* func (s *Registry) Save(c *floki.Context) error
\* The result is the Store.Save calls made, in order, errMulti, and the
\* returned error e.
RegistrySave(order, failing) ==
    SaveReturn(SaveLoop(order, failing, [calls |-> <<>>, errs |-> <<>>]))

----------------------------------------------------------------------------
(* MultiError *)

\* A nil slot of a MultiError.
NilError == [kind |-> "nil", name |-> ""]

\* The non-nil errors a MultiError of this package holds.
ErrorValues == {MissingStoreErr("A"), SavingErr("A"), SavingErr("B")}

\* The MultiError values Error() is called on.
MultiErrors == UNION {[1..k -> ErrorValues \cup {NilError}] : k \in 0..MaxErrs}

\* A string, as the sequence of the pieces it is formatted from.
Str(q) == [kind |-> "string", s |-> "", seq |-> q]

\* The verb %q of fmt.Errorf: the name in double quotes.  The names of
\* Names hold no character that %q escapes.
Quote(name) == <<"\"", name, "\"">>

\* e.Error() of a component built by fmt.Errorf in Registry.Save.
ErrorString(e) ==
    IF e.kind = "missing store"
    THEN <<"sessions: missing store for session ">> \o Quote(e.name)
    ELSE <<"sessions: error saving session ">> \o Quote(e.name)
            \o <<" -- ", SaveFailed>>

\* The verb %d of fmt.Sprintf: the decimal digits of n.
Digit(d) == <<"0", "1", "2", "3", "4", "5", "6", "7", "8", "9">>[d + 1]
RECURSIVE Itoa(_)
Itoa(n) == IF n < 10 THEN <<Digit(n)>> ELSE Itoa(n \div 10) \o <<Digit(n % 10)>>

\* The loop of MultiError.Error, lines 282-289: s is the message of the first
\* non-nil error and n the number of non-nil errors.
RECURSIVE ErrorLoop(_, _, _)
ErrorLoop(m, s, n) ==
    IF m = <<>> THEN [s |-> s, n |-> n]
    ELSE IF Head(m) # NilError
    THEN ErrorLoop(Tail(m), IF n = 0 THEN ErrorString(Head(m)) ELSE s, n + 1)
    ELSE ErrorLoop(Tail(m), s, n)

\* The switch of MultiError.Error, lines 290-298.
ErrorSwitch(s, n) ==
    CASE n = 0 -> <<"(0 errors)">>
      [] n = 1 -> s
      [] n = 2 -> s \o <<" (and 1 other error)">>
      [] OTHER -> s \o <<" (and ">> \o Itoa(n - 1) \o <<" other errors)">>

\* An Error() that counts the nil slots too.
MultiErrorErrorCountsNil(m) ==
    ErrorSwitch(ErrorLoop(m, <<>>, 0).s, Len(m))

\* func (m MultiError) Error() string
MultiErrorError(m) ==
    LET r == ErrorLoop(m, <<>>, 0)
    IN  ErrorSwitch(r.s, r.n)

----------------------------------------------------------------------------
(* Session.Save and the teardown hook *)

\* A Session.Save that takes a successful save as the end of the changes.
SessionSaveClearsDirty(sid, saveFails) ==
    IF heap[sid].store = NilStore
    THEN [panic |-> TRUE, calls |-> <<>>, e |-> NilErr, sess |-> heap[sid]]
    ELSE [panic |-> FALSE, calls |-> <<SaveCall(sid, heap[sid], saveFails)>>,
          e |-> IF saveFails THEN SaveFailed ELSE NilErr,
          sess |-> [heap[sid] EXCEPT !.dirty = saveFails]]

\* func (s *Session) Save(c *floki.Context) error
\* saveFails is whether store.Save returns an error.  The result is
\* [panic, calls, e, sess]: s.store.Save on a nil Store is a nil
\* dereference; sess is the session after the call, with every field of this
\* package as it was.
SessionSave(sid, saveFails) ==
    IF heap[sid].store = NilStore
    THEN [panic |-> TRUE, calls |-> <<>>, e |-> NilErr, sess |-> heap[sid]]
    ELSE [panic |-> FALSE, calls |-> <<SaveCall(sid, heap[sid], saveFails)>>,
          e |-> IF saveFails THEN SaveFailed ELSE NilErr,
          sess |-> heap[sid]]

\* A flushSession that saves whether or not the session is dirty.
FlushSessionAlways(saveFails) ==
    LET r == SessionSave(ctxSession, saveFails)
    IN  [calls |-> r.calls, e |-> r.e, sess |-> r.sess,
         status |-> IF r.panic THEN "panic"
                    ELSE IF r.e # NilErr THEN "fatal" ELSE "teardown"]

\* func flushSession(c *floki.Context)
\* The result is the Store.Save calls made and the status after the hook:
\* c.Logger().Fatalln ends the process when the save returns an error.
FlushSession(saveFails) ==
    IF heap[ctxSession].dirty
    THEN LET r == SessionSave(ctxSession, saveFails)
         IN  [calls |-> r.calls, e |-> r.e, sess |-> r.sess,
              status |-> IF r.panic THEN "panic"
                         ELSE IF r.e # NilErr THEN "fatal" ELSE "teardown"]
    ELSE [calls |-> <<>>, e |-> NilErr, sess |-> heap[ctxSession],
          status |-> "teardown"]

----------------------------------------------------------------------------
(* State machine of one request *)

\* What the last operation was, on which session, and what came back:
\* ret a returned value (for Set and AddFlash the value passed), e a
\* returned error, s a returned or receiving *Session, calls the Store.Save
\* calls it made, errs a returned MultiError.  For a Registry.Get, store is
\* the Store passed and prev the store the session was bound to before the
\* call ("" when the call created the session, or for another operation).
Op(op, sid, name, key, ret, e, calls, errs) ==
    [op |-> op, s |-> sid, name |-> name, key |-> key, ret |-> ret, e |-> e,
     calls |-> calls, errs |-> errs, store |-> "", prev |-> ""]

\* The store session `name` is bound to, "" when the name is not tracked.
BoundStore(name) == IF name \in Tracked THEN heap[sessions[name].s].store ELSE ""

GetOp(op, r, store, name) ==
    [Op(op, r.s, name, "", NilVal, r.e, <<>>, <<>>)
        EXCEPT !.store = store, !.prev = BoundStore(name)]

Init ==
    /\ heap = <<>>
    /\ sessions = [n \in {} |-> SessionInfo(0, NilErr)]
    /\ regCreated = FALSE
    /\ ctxSession = 0
    /\ hooks = 0
    /\ hookPos = 0
    /\ status = "running"
    /\ newCalls = [n \in Names |-> 0]
    /\ flushSaves = [i \in {} |-> 0]
    /\ mutated = {}
    /\ installed = {}
    /\ added = <<>>
    /\ given = <<>>
    /\ tainted = {}
    /\ slot = [c \in Contexts |-> 0]
    /\ registries = <<>>
    /\ lastReg = [c |-> "", r |-> 0, fresh |-> FALSE]
    /\ lastOp = Op("none", 0, "", "", NilVal, NilErr, <<>>, <<>>)

Sids == 1..Len(heap)

\* The flashes a session comes with from store.New, per key.
LoadedFlashes(loaded) ==
    [k \in Keys |-> IF k \in DOMAIN loaded /\ IsSlice(loaded[k])
                    THEN loaded[k].seq ELSE <<>>]

\* The history of added flashes after a Registry.Get with result r.
AddedAfterGet(r, loaded) ==
    IF Len(r.heap) > Len(heap) THEN Append(added, LoadedFlashes(loaded)) ELSE added

\* The elements of a sequence.
Elems(q) == {q[i] : i \in 1..Len(q)}

\* The set history after a Registry.Get with result r.
GivenAfterGet(r, loaded) ==
    IF Len(r.heap) > Len(heap)
    THEN Append(given, [k \in Keys |-> Elems(LoadedFlashes(loaded)[k])])
    ELSE given

\* The ordered history with the keys of `taint` dropped from it.
Untracked(taint) ==
    [s \in DOMAIN added |->
        [k \in Keys |-> IF <<s, k>> \in taint THEN <<>> ELSE added[s][k]]]

\* Store.New allocates within the bounds of the model.
WithinBounds(r, name) ==
    /\ Len(r.heap) <= MaxSessions
    /\ r.newCalls[name] <= MaxNewCalls

\* GetRegistry(c).Get(store, name), without the flash history.
RegistryGetStep(store, name, err, loaded) ==
    /\ status = "running"
    /\ LET r == RegistryGet(store, name, err, loaded)
       IN  /\ WithinBounds(r, name)
           /\ heap' = r.heap
           /\ sessions' = r.sessions
           /\ newCalls' = r.newCalls
           /\ status' = IF r.panic THEN "panic" ELSE "running"
           /\ lastOp' = GetOp("Registry.Get", r, store, name)
    /\ regCreated' = TRUE
    /\ UNCHANGED <<ctxSession, hooks, hookPos, flushSaves, mutated, installed>>
    /\ UNCHANGED ctxVars

\* A handler calls GetRegistry(c).Get(store, name).
DoRegistryGet(store, name, err, loaded) ==
    /\ RegistryGetStep(store, name, err, loaded)
    /\ UNCHANGED <<added, given, tainted>>

\* The same call, recording the flashes a new session was loaded with.
FlashRegistryGet(store, name, err, loaded) ==
    /\ RegistryGetStep(store, name, err, loaded)
    /\ added' = AddedAfterGet(RegistryGet(store, name, err, loaded), loaded)
    /\ given' = GivenAfterGet(RegistryGet(store, name, err, loaded), loaded)
    /\ UNCHANGED tainted

\* The handler returned by Sessions(name, store, options) runs, up to c.Next().
DoSessions(store, name, err, loaded) ==
    /\ status = "running"
    /\ hooks < MaxInstalls
    /\ LET r == RegistryGet(store, name, err, loaded)
           ok == ~r.panic /\ r.e = NilErr
       IN  /\ WithinBounds(r, name)
           /\ heap' = r.heap
           /\ sessions' = r.sessions
           /\ newCalls' = r.newCalls
           \* if err != nil { panic(err) }
           /\ status' = IF ok THEN "running" ELSE "panic"
           \* c.Set("_session", s)
           /\ ctxSession' = IF ok THEN r.s ELSE ctxSession
           \* c.BeforeDestroy(flushSession)
           /\ hooks' = IF ok THEN hooks + 1 ELSE hooks
           /\ installed' = IF ok THEN installed \cup {r.s} ELSE installed
           /\ lastOp' = GetOp("Sessions", r, store, name)
    /\ regCreated' = TRUE
    /\ UNCHANGED <<hookPos, flushSaves, mutated, added, given, tainted>>
    /\ UNCHANGED ctxVars

DoGet(sid, key) ==
    /\ status = "running"
    /\ lastOp' = Op("Get", sid, "", key, SessionGet(heap[sid], key), NilErr, <<>>, <<>>)
    /\ UNCHANGED <<heap, sessions, regCreated, ctxSession, hooks, hookPos,
                   status, newCalls, flushSaves, mutated, installed, added, given, tainted>>
    /\ UNCHANGED ctxVars

\* The values a handler passes to Set on session sid: one it builds (a
\* non-slice, a full slice, or a slice with spare capacity), or a slice it
\* got from the session (Set(key, s.Get(other))).
SetInputs(sid) ==
    SetValues
        \cup {SliceOn(FreshArr, <<"v2">>, MaxFlashLen)}
        \cup {heap[sid].Values[k] : k \in {j \in DOMAIN heap[sid].Values :
                                              IsSlice(heap[sid].Values[j])}}

\* The stored entries whose slice shares its backing array with val.
Sharing(val) ==
    {e \in (1..Len(heap)) \X Keys :
        /\ val.arr # 0
        /\ e[2] \in DOMAIN heap[e[1]].Values
        /\ heap[e[1]].Values[e[2]].arr = val.arr}

\* s.Set(key, val), without the flash history.
SetStep(sid, key, val) ==
    /\ status = "running"
    /\ heap' = [heap EXCEPT ![sid] = SessionSet(@, key, val)]
    /\ mutated' = mutated \cup {sid}
    /\ lastOp' = Op("Set", sid, "", key, val, NilErr, <<>>, <<>>)
    /\ UNCHANGED <<sessions, regCreated, ctxSession, hooks, hookPos, status,
                   newCalls, flushSaves, installed>>
    /\ UNCHANGED ctxVars

DoSet(sid, key, val) ==
    /\ SetStep(sid, key, val)
    /\ UNCHANGED <<added, given, tainted>>

\* s.Set(key, val), recording that the key was written outside of AddFlash.
FlashSet(sid, key, val) ==
    /\ SetStep(sid, key, val)
    /\ tainted' = tainted \cup {<<sid, key>>} \cup Sharing(val)
    /\ added' = Untracked(tainted')
    /\ UNCHANGED given

\* s.Delete(key), without the flash history.
DeleteStep(sid, key) ==
    /\ status = "running"
    /\ heap' = [heap EXCEPT ![sid] = SessionDelete(@, key)]
    /\ mutated' = IF key \in DOMAIN heap[sid].Values THEN mutated \cup {sid} ELSE mutated
    /\ lastOp' = Op("Delete", sid, "", key, SessionGet(heap[sid], key), NilErr, <<>>, <<>>)
    /\ UNCHANGED <<sessions, regCreated, ctxSession, hooks, hookPos, status,
                   newCalls, flushSaves, installed>>
    /\ UNCHANGED ctxVars

DoDelete(sid, key) ==
    /\ DeleteStep(sid, key)
    /\ UNCHANGED <<added, given, tainted>>

\* s.Delete(key), recording that the key was written outside of AddFlash.
FlashDelete(sid, key) ==
    /\ DeleteStep(sid, key)
    /\ tainted' = tainted \cup {<<sid, key>>}
    /\ added' = Untracked(tainted')
    /\ UNCHANGED given

\* s.AddFlash(value, key), without the flash history.
AddFlashStep(sid, value, key) ==
    /\ status = "running"
    /\ LET r == SessionAddFlash(heap[sid], value, key)
       IN  /\ ~r.panic => Len(r.sess.Values[key].seq) <= MaxFlashLen
           \* the other sessions see a write into a shared backing array
           /\ heap' = WriteThrough([heap EXCEPT ![sid] = r.sess], r.arr, r.idx, value)
           /\ status' = IF r.panic THEN "panic" ELSE "running"
           /\ mutated' = IF r.panic THEN mutated ELSE mutated \cup {sid}
    /\ lastOp' = Op("AddFlash", sid, "", key, Scalar(value), NilErr, <<>>, <<>>)
    /\ UNCHANGED <<sessions, regCreated, ctxSession, hooks, hookPos,
                   newCalls, flushSaves, installed>>
    /\ UNCHANGED ctxVars

DoAddFlash(sid, value, key) ==
    /\ AddFlashStep(sid, value, key)
    /\ UNCHANGED <<added, given, tainted>>

\* s.AddFlash(value, key), recording the value when the call returns.
FlashAddFlash(sid, value, key) ==
    /\ AddFlashStep(sid, value, key)
    /\ added' = IF SessionAddFlash(heap[sid], value, key).panic
                    \/ <<sid, key>> \in tainted
                 THEN added
                 ELSE [added EXCEPT ![sid][key] = Append(@, value)]
    /\ given' = IF SessionAddFlash(heap[sid], value, key).panic THEN given
                 ELSE [given EXCEPT ![sid][key] = @ \cup {value}]
    /\ UNCHANGED tainted

\* s.Flashes(key), without the flash history.
FlashesStep(sid, key) ==
    /\ status = "running"
    /\ LET r == SessionFlashes(heap[sid], key)
       IN  /\ heap' = [heap EXCEPT ![sid] = r.sess]
           /\ status' = IF r.panic THEN "panic" ELSE "running"
           /\ mutated' = IF key \in DOMAIN heap[sid].Values
                         THEN mutated \cup {sid} ELSE mutated
           /\ lastOp' = Op("Flashes", sid, "", key, Slice(r.ret), NilErr, <<>>, <<>>)
    /\ UNCHANGED <<sessions, regCreated, ctxSession, hooks, hookPos,
                   newCalls, flushSaves, installed>>
    /\ UNCHANGED ctxVars

DoFlashes(sid, key) ==
    /\ FlashesStep(sid, key)
    /\ UNCHANGED <<added, given, tainted>>

\* s.Flashes(key), which starts a new history for the key.
FlashFlashes(sid, key) ==
    /\ FlashesStep(sid, key)
    /\ added' = [added EXCEPT ![sid][key] = <<>>]
    /\ given' = [given EXCEPT ![sid][key] = {}]
    /\ tainted' = tainted \ {<<sid, key>>}

\* A handler calls session.Save(c).
DoSessionSave(sid, saveFails) ==
    /\ status = "running"
    /\ LET r == SessionSave(sid, saveFails)
       IN  /\ status' = IF r.panic THEN "panic" ELSE "running"
           /\ heap' = [heap EXCEPT ![sid] = r.sess]
           /\ lastOp' = Op("Session.Save", sid, "", "", NilVal, r.e, r.calls, <<>>)
    /\ UNCHANGED <<sessions, regCreated, ctxSession, hooks, hookPos,
                   newCalls, flushSaves, mutated, installed, added, given, tainted>>
    /\ UNCHANGED ctxVars

\* func Save(c *floki.Context) error: GetRegistry(c).Save(c)
DoSave(order, failing) ==
    /\ status = "running"
    /\ LET r == RegistrySave(order, failing)
       IN  lastOp' = Op("Registry.Save", 0, "", "", NilVal, r.e, r.calls, r.errs)
    /\ regCreated' = TRUE
    /\ UNCHANGED <<heap, sessions, ctxSession, hooks, hookPos, status,
                   newCalls, flushSaves, mutated, installed, added, given, tainted>>
    /\ UNCHANGED ctxVars

\* A caller renders a MultiError: m.Error().
DoError(m) ==
    /\ lastOp' = [Op("MultiError.Error", 0, "", "", Str(MultiErrorError(m)),
                     MultiErr, <<>>, m)
                     EXCEPT !.store = "", !.prev = ""]
    /\ UNCHANGED <<heap, sessions, regCreated, ctxSession, hooks, hookPos, status,
                   newCalls, flushSaves, mutated, installed, added, given, tainted>>
    /\ UNCHANGED ctxVars

----------------------------------------------------------------------------
(* GetRegistry over several request contexts *)

\* make(map[string]sessionInfo)
EmptySessions == [n \in {} |-> SessionInfo(0, NilErr)]

\* A GetRegistry that keeps one Registry for the whole package.
GetRegistryShared(c) ==
    IF registries # <<>>
    THEN [slot |-> [slot EXCEPT ![c] = 1], registries |-> registries,
          r |-> 1, fresh |-> FALSE]
    ELSE [slot |-> [slot EXCEPT ![c] = 1],
          registries |-> <<[context |-> c, sessions |-> EmptySessions]>>,
          r |-> 1, fresh |-> TRUE]

\* func GetRegistry(c *floki.Context) *Registry
\* The result is the slots and Registry objects after the call, the Registry
\* returned, and whether this call created it.
GetRegistry(c) ==
    IF slot[c] # 0
    THEN [slot |-> slot, registries |-> registries, r |-> slot[c], fresh |-> FALSE]
    ELSE LET r == Len(registries) + 1
         IN  [slot |-> [slot EXCEPT ![c] = r],
              registries |-> Append(registries,
                                    [context |-> c, sessions |-> EmptySessions]),
              r |-> r, fresh |-> TRUE]

\* The sessions a Registry tracks.
EntrySids(reg) == {reg.sessions[n].s : n \in DOMAIN reg.sessions}

\* The Store.Save calls of Registry.Save on reg, iterating in `order`.
RECURSIVE SaveCallsIn(_, _)
SaveCallsIn(reg, order) ==
    IF order = <<>> THEN <<>>
    ELSE LET sid == reg.sessions[Head(order)].s
         IN  <<SaveCall(sid, heap[sid], FALSE)>> \o SaveCallsIn(reg, Tail(order))

\* A handler of context c calls GetRegistry(c).
DoGetRegistry(c) ==
    /\ LET g == GetRegistry(c)
       IN  /\ slot' = g.slot
           /\ registries' = g.registries
           /\ lastReg' = [c |-> c, r |-> g.r, fresh |-> g.fresh]
    /\ lastOp' = Op("GetRegistry", 0, "", "", NilVal, NilErr, <<>>, <<>>)
    /\ UNCHANGED <<heap, sessions, regCreated, ctxSession, hooks, hookPos, status,
                   newCalls, flushSaves, mutated, installed, added, given, tainted>>

\* A handler of context c calls GetRegistry(c).Get(store, name); store.New
\* succeeds with an empty session.
DoContextGet(c, store, name) ==
    /\ LET g == GetRegistry(c)
           reg == g.registries[g.r]
           hit == name \in DOMAIN reg.sessions
           sid == IF hit THEN reg.sessions[name].s ELSE Len(heap) + 1
       IN  /\ ~hit => Len(heap) < MaxSessions /\ newCalls[name] < MaxNewCalls
           /\ slot' = g.slot
           /\ lastReg' = [c |-> c, r |-> g.r, fresh |-> g.fresh]
           /\ registries' =
                 IF hit THEN g.registries
                 ELSE [g.registries EXCEPT ![g.r].sessions =
                          MapSet(@, name, SessionInfo(sid, NilErr))]
           /\ heap' = IF hit THEN BindStore(heap, sid, store)
                      ELSE Append(heap, NewSession(store, name, EmptyValues))
           /\ newCalls' = IF hit THEN newCalls ELSE [newCalls EXCEPT ![name] = @ + 1]
           /\ lastOp' = [Op("Registry.Get", sid, name, "", NilVal, NilErr, <<>>, <<>>)
                           EXCEPT !.store = store,
                                  !.prev = IF hit THEN heap[sid].store ELSE ""]
    /\ UNCHANGED <<sessions, regCreated, ctxSession, hooks, hookPos, status,
                   flushSaves, mutated, installed, added, given, tainted>>

\* A handler of context c calls Save(c); every Store.Save succeeds.
DoContextSave(c, order) ==
    /\ LET g == GetRegistry(c)
       IN  /\ order \in RangeOrders(DOMAIN g.registries[g.r].sessions)
           /\ slot' = g.slot
           /\ registries' = g.registries
           /\ lastReg' = [c |-> c, r |-> g.r, fresh |-> g.fresh]
           /\ lastOp' = Op("Registry.Save", 0, "", "", NilVal, NilErr,
                           SaveCallsIn(g.registries[g.r], order), <<>>)
    /\ UNCHANGED <<heap, sessions, regCreated, ctxSession, hooks, hookPos, status,
                   newCalls, flushSaves, mutated, installed, added, given, tainted>>

----------------------------------------------------------------------------

\* The last handler of the chain returned: the context is being destroyed.
BeginTeardown ==
    /\ status = "running"
    /\ status' = "teardown"
    /\ lastOp' = Op("destroy", 0, "", "", NilVal, NilErr, <<>>, <<>>)
    /\ UNCHANGED <<heap, sessions, regCreated, ctxSession, hooks, hookPos,
                   newCalls, flushSaves, mutated, installed, added, given, tainted>>
    /\ UNCHANGED ctxVars

Count(calls, sid) == Len(SelectSeq(calls, LAMBDA c : c.s = sid))

\* The context runs the next BeforeDestroy hook: flushSession(c).
DoFlushSession(saveFails) ==
    /\ status = "teardown"
    /\ hookPos < hooks
    /\ LET r == FlushSession(saveFails)
       IN  /\ status' = r.status
           /\ flushSaves' = [i \in DOMAIN flushSaves \cup {c.s : c \in Range(r.calls)} |->
                                (IF i \in DOMAIN flushSaves THEN flushSaves[i] ELSE 0)
                                + Count(r.calls, i)]
           /\ heap' = [heap EXCEPT ![ctxSession] = r.sess]
           /\ lastOp' = Op("flushSession", ctxSession, "", "", NilVal, r.e,
                           r.calls, <<>>)
    /\ hookPos' = hookPos + 1
    /\ UNCHANGED <<sessions, regCreated, ctxSession, hooks, newCalls, mutated,
                   installed, added, given, tainted>>
    /\ UNCHANGED ctxVars

\* Every hook has run: the request is over.
EndRequest ==
    /\ status = "teardown"
    /\ hookPos = hooks
    /\ status' = "done"
    /\ UNCHANGED <<heap, sessions, regCreated, ctxSession, hooks, hookPos,
                   newCalls, flushSaves, mutated, installed, added, given, tainted, lastOp>>
    /\ UNCHANGED ctxVars

\* What Store.New returns is read only when Registry.Get calls it.
NewResults(name, loadable) ==
    IF name \in Tracked THEN {<<NilErr, EmptyValues>>}
    ELSE {NilErr, NewErr} \X loadable

\* The tracked names whose Store.Save is called by Registry.Save.
Saveable == {n \in Tracked : heap[sessions[n].s].store # NilStore}

\* Whether Store.Save fails is read only when it is called.
SaveResults(sid) == IF heap[sid].store = NilStore THEN {FALSE} ELSE BOOLEAN

\* Registry specification: two names, two stores and the nil Store, one key.
Next ==
    \/ \E store \in StoreArgs, name \in Names :
         \E new \in NewResults(name, {EmptyValues}) :
            DoRegistryGet(store, name, new[1], new[2])
    \/ \E store \in StoreArgs, name \in Names :
         \E new \in NewResults(name, {EmptyValues}) :
            DoSessions(store, name, new[1], new[2])
    \/ \E sid \in Sids, key \in RegistryKeys : DoGet(sid, key)
    \/ \E sid \in Sids, key \in RegistryKeys, val \in RegistrySetValues : DoSet(sid, key, val)
    \/ \E sid \in Sids, key \in RegistryKeys : DoDelete(sid, key)
    \/ \E sid \in Sids : \E saveFails \in SaveResults(sid) : DoSessionSave(sid, saveFails)
    \/ \E order \in RangeOrders(Tracked), failing \in SUBSET Saveable : DoSave(order, failing)
    \/ BeginTeardown
    \/ \E saveFails \in BOOLEAN : DoFlushSession(saveFails)
    \/ EndRequest

Spec == Init /\ [][Next]_vars

\* Session specification: one name, every Session operation, two keys.
NextSession ==
    \/ \E store \in SessionStoreArgs, name \in SessionNames :
         \E new \in NewResults(name, LoadedValues) :
            DoRegistryGet(store, name, new[1], new[2])
    \/ \E store \in SessionStoreArgs, name \in SessionNames :
         \E new \in NewResults(name, LoadedValues) :
            DoSessions(store, name, new[1], new[2])
    \/ \E sid \in Sids, key \in Keys : DoGet(sid, key)
    \/ \E sid \in Sids, key \in Keys, val \in SetValues : DoSet(sid, key, val)
    \/ \E sid \in Sids, key \in Keys : DoDelete(sid, key)
    \/ \E sid \in Sids, value \in FlashValues, key \in Keys : DoAddFlash(sid, value, key)
    \/ \E sid \in Sids, key \in Keys : DoFlashes(sid, key)
    \/ \E sid \in Sids : \E saveFails \in SaveResults(sid) : DoSessionSave(sid, saveFails)
    \/ \E order \in RangeOrders(Tracked), failing \in SUBSET Saveable : DoSave(order, failing)
    \/ BeginTeardown
    \/ \E saveFails \in BOOLEAN : DoFlushSession(saveFails)
    \/ EndRequest

SpecSession == Init /\ [][NextSession]_vars

\* Flash specification: one session that a successful Get returns once, its
\* write operations on two keys with slices that may share their storage,
\* and the history of what AddFlash added to each key.
NextFlash ==
    \/ \E store \in SessionStoreArgs \ {NilStore}, name \in SessionNames \ Tracked :
         \E loaded \in LoadedValues :
            FlashRegistryGet(store, name, NilErr, loaded)
    \/ \E sid \in Sids, key \in Keys : \E val \in SetInputs(sid) : FlashSet(sid, key, val)
    \/ \E sid \in Sids, key \in Keys : FlashDelete(sid, key)
    \/ \E sid \in Sids, value \in FlashValues, key \in Keys : FlashAddFlash(sid, value, key)
    \/ \E sid \in Sids, key \in Keys : FlashFlashes(sid, key)

SpecFlash == Init /\ [][NextFlash]_vars

\* The orders in which a Registry of up to two names can be iterated.
NameOrders == UNION {RangeOrders(S) : S \in SUBSET Names}

\* Context specification: two request contexts, each with its own slot.
NextContexts ==
    \/ \E c \in Contexts : DoGetRegistry(c)
    \/ \E c \in Contexts, store \in Stores, name \in Names : DoContextGet(c, store, name)
    \/ \E c \in Contexts, order \in NameOrders : DoContextSave(c, order)

SpecContexts == Init /\ [][NextContexts]_vars

\* MultiError specification: Error() on every MultiError of up to MaxErrs slots.
NextError == \E m \in MultiErrors : DoError(m)

SpecError == Init /\ [][NextError]_vars

----------------------------------------------------------------------------
(* Properties *)

\* The last operation was a Registry.Get, direct or by the middleware, that
\* returned (it did not panic on a nil Store).
GetReturned == lastOp.op \in {"Registry.Get", "Sessions"} /\ lastOp.s # 0

\* C1: every Registry.Get(store, n) returns the Session instance tracked for
\* n, which is the one the first Get for n returned: a tracked entry is never
\* removed and its session never replaced by another instance, and a
\* Registry.Get leaves the Values of every session as they were, so what was
\* written through an earlier reference is read through a later one.
C1_SameInstance ==
    /\ [](GetReturned =>
            /\ lastOp.name \in Tracked
            /\ lastOp.s = sessions[lastOp.name].s
            /\ heap[lastOp.s].name = lastOp.name)
    /\ [][/\ \A n \in Tracked : n \in DOMAIN sessions' /\ sessions'[n].s = sessions[n].s
          /\ lastOp'.op \in {"Registry.Get", "Sessions"} =>
                \A sid \in Sids : /\ sid \in 1..Len(heap')
                                  /\ heap'[sid].Values = heap[sid].Values]_vars

\* C1 witness: a Registry.Get with store s2 returned a session that an
\* earlier reference had written to, and the written value is in it.
C1_Witness ==
    /\ lastOp.op = "Registry.Get"
    /\ lastOp.s \in mutated
    /\ heap[lastOp.s].store = "s2"
    /\ "custom" \in DOMAIN heap[lastOp.s].Values

\* C2: Store.New is called at most once per name, exactly once for a tracked
\* name, also when it returned an error; the cached (Session, error) pair is
\* never changed and every Registry.Get returns it.
C2_NewOnce ==
    /\ [](/\ \A n \in Names : newCalls[n] = (IF n \in Tracked THEN 1 ELSE 0)
          /\ GetReturned =>
                /\ lastOp.name \in Tracked
                /\ lastOp.s = sessions[lastOp.name].s
                /\ lastOp.e = sessions[lastOp.name].e)
    /\ [][\A n \in Tracked : n \in DOMAIN sessions' /\ sessions'[n] = sessions[n]]_vars

\* C2 witness: a Registry.Get returned the cached error of a failed Store.New
\* together with a session that was written to after the first Get, now
\* bound to store s2.
C2_Witness ==
    /\ lastOp.op = "Registry.Get"
    /\ lastOp.e = NewErr
    /\ lastOp.s \in mutated
    /\ heap[lastOp.s].store = "s2"
    /\ newCalls[lastOp.name] = 1

\* The *Sessions tracked by the registry that have a store bound.
SaveableSids == {sessions[n].s : n \in Saveable}

\* C3: one Registry.Save calls Store.Save exactly once for every tracked
\* session that has a store bound, through that store, whatever failed for
\* the other names.
C3_EverySaveAttempted ==
    lastOp.op = "Registry.Save" =>
        /\ \A sid \in SaveableSids :
              /\ Count(lastOp.calls, sid) = 1
              /\ \A c \in Range(lastOp.calls) : c.s = sid => c.store = heap[sid].store
        /\ Len(lastOp.calls) = Cardinality(SaveableSids)

\* C3 witness: a Registry.Save over two tracked names in which the
\* Store.Save of the first visited name returned an error and the second
\* name was still saved, successfully.
C3_Witness ==
    /\ lastOp.op = "Registry.Save"
    /\ Len(lastOp.calls) = 2
    /\ lastOp.calls[1].failed
    /\ ~lastOp.calls[2].failed
    /\ Len(lastOp.errs) = 1

\* The names that fail in the last Registry.Save: no store bound, or a
\* Store.Save call that returned an error.
MissingNames == {n \in Tracked : heap[sessions[n].s].store = NilStore}
SaveFailedNames ==
    {n \in Tracked : \E c \in Range(lastOp.calls) : c.s = sessions[n].s /\ c.failed}

ErrCount(errs, e) == Len(SelectSeq(errs, LAMBDA x : x = e))

\* C4: Registry.Save returns nil exactly when no tracked name failed;
\* otherwise the MultiError holds one component per failing name and nothing
\* else: a missing-store error for a name without a store, for which no
\* Store.Save is called, and a saving error for a name whose Store.Save
\* returned an error.
C4_OneErrorPerFailure ==
    lastOp.op = "Registry.Save" =>
        /\ (lastOp.e = NilErr) <=> (MissingNames \cup SaveFailedNames = {})
        /\ lastOp.e # NilErr => lastOp.e = MultiErr
        /\ \A n \in MissingNames :
              /\ ErrCount(lastOp.errs, MissingStoreErr(n)) = 1
              /\ Count(lastOp.calls, sessions[n].s) = 0
        /\ \A n \in SaveFailedNames : ErrCount(lastOp.errs, SavingErr(n)) = 1
        /\ Len(lastOp.errs) = Cardinality(MissingNames \cup SaveFailedNames)

\* C4 witness: a Registry.Save that returned a MultiError with both kinds
\* of failure, one name without a store and one whose Store.Save failed.
C4_Witness ==
    /\ lastOp.op = "Registry.Save"
    /\ lastOp.e = MultiErr
    /\ MissingNames # {}
    /\ SaveFailedNames # {}

FlushCount(sid) == IF sid \in DOMAIN flushSaves THEN flushSaves[sid] ELSE 0

\* C5 (as claimed): when the request is over, every session that the
\* Sessions middleware mapped and that was mutated has had Store.Save called
\* on it exactly once by the teardown.  Stated for the handler chains in
\* which every installation of the middleware names another session.
C5_FlushedExactlyOnce ==
    (status = "done" /\ Cardinality(installed) = hooks) =>
        \A sid \in installed \cap mutated : FlushCount(sid) = 1

\* C6 (as claimed): neither flushSession nor Registry.Save calls Store.Save
\* on a session whose dirty flag is false.
C6_NoSaveOfCleanSession ==
    lastOp.op \in {"flushSession", "Registry.Save"} =>
        \A c \in Range(lastOp.calls) : c.dirty

\* C6 (amended): flushSession calls Store.Save only on a session whose dirty
\* flag is true, and at most once; Registry.Save calls Store.Save on every
\* tracked session that has a store, dirty or not.
C6_FlushSavesOnlyDirty ==
    /\ lastOp.op = "flushSession" =>
          /\ \A c \in Range(lastOp.calls) : c.dirty /\ c.s = ctxSession
          /\ Len(lastOp.calls) <= 1
          /\ ~heap[ctxSession].dirty => lastOp.calls = <<>>
    /\ lastOp.op = "Registry.Save" =>
          \A sid \in SaveableSids :
             \E c \in Range(lastOp.calls) : c.s = sid /\ c.dirty = heap[sid].dirty

\* C6 witness: flushSession ran on a session that has a store and is not
\* dirty, and made no Store.Save call.
C6_Witness ==
    /\ lastOp.op = "flushSession"
    /\ heap[ctxSession].store # NilStore
    /\ ~heap[ctxSession].dirty
    /\ lastOp.calls = <<>>

\* C7 (as claimed): after AddFlash returns, the session is dirty.
C7_AddFlashMarksDirty ==
    (lastOp.op = "AddFlash" /\ status = "running") => heap[lastOp.s].dirty

\* C8 (as claimed): after a Flashes call that returned a non-empty sequence,
\* the session is dirty.
C8_FlashesMarksDirty ==
    (lastOp.op = "Flashes" /\ status = "running" /\ lastOp.ret.seq # <<>>)
        => heap[lastOp.s].dirty

\* C9: after Set and after Delete the session is dirty; for Delete also
\* when the key was not in Values.
C9_SetDeleteMarkDirty ==
    lastOp.op \in {"Set", "Delete"} => heap[lastOp.s].dirty

\* C9 witness: a Delete of a key that was not present, on a session whose
\* Values no operation has changed, left the session dirty.
C9_Witness ==
    /\ lastOp.op = "Delete"
    /\ lastOp.ret = NilVal
    /\ lastOp.s \notin mutated
    /\ heap[lastOp.s].dirty

\* C10: no step resets a dirty flag: a session that is dirty stays the same
\* object and stays dirty.
C10_DirtyMonotonic ==
    [][\A sid \in Sids : heap[sid].dirty =>
          sid \in 1..Len(heap') /\ heap'[sid].dirty]_vars

\* C10 witness: a dirty session was saved by a Session.Save that returned
\* no error, and is still dirty.
C10_Witness ==
    /\ lastOp.op = "Session.Save"
    /\ lastOp.calls # <<>>
    /\ lastOp.e = NilErr
    /\ heap[lastOp.s].dirty

\* C11 (as claimed): once a session has a name and a bound store, no step
\* changes either field.
C11_NameAndStoreImmutable ==
    [][\A sid \in Sids : heap[sid].store # NilStore =>
          /\ sid \in 1..Len(heap')
          /\ heap'[sid].name = heap[sid].name
          /\ heap'[sid].store = heap[sid].store]_vars

\* C11 (amended): no step changes a session's name; a session's store is
\* changed only by a Registry.Get for the session's name, direct or by the
\* middleware, which sets it to the Store passed in, nil included.
C11_OnlyGetRebindsStore ==
    [][\A sid \in Sids :
          /\ sid \in 1..Len(heap')
          /\ heap'[sid].name = heap[sid].name
          /\ heap'[sid].store # heap[sid].store =>
                /\ lastOp'.op \in {"Registry.Get", "Sessions"}
                /\ lastOp'.s = sid
                /\ lastOp'.name = heap[sid].name
                /\ heap'[sid].store = lastOp'.store]_vars

\* C11 witness: a Registry.Get with no store for a session that was bound
\* to s1 left it with its name and without a store.
C11_Witness ==
    /\ lastOp.op = "Registry.Get"
    /\ lastOp.prev = "s1"
    /\ lastOp.store = NilStore
    /\ lastOp.s # 0
    /\ heap[lastOp.s].store = NilStore
    /\ heap[lastOp.s].name = lastOp.name

\* C12: after a Registry.Get returned, the session is bound to the Store
\* passed in, on a cache hit too, it is the tracked instance, and a
\* Registry.Save in that state, in any order and whatever fails, calls
\* Store.Save for it through that store only; every Store.Save call that a
\* Registry.Save made went through the store the session is bound to.
C12_GetRebindsStore ==
    /\ GetReturned =>
          /\ heap[lastOp.s].store = lastOp.store
          /\ lastOp.s = sessions[lastOp.name].s
          /\ \A order \in RangeOrders(Tracked), failing \in SUBSET Saveable :
                \A c \in Range(RegistrySave(order, failing).calls) :
                   c.s = lastOp.s => c.store = lastOp.store
    /\ lastOp.op = "Registry.Save" =>
          \A c \in Range(lastOp.calls) : c.store = heap[c.s].store

\* C12 witness: Registry.Get(s2, n) returned the session that was bound to
\* s1 and had been written to, with the written value in it, bound to s2.
C12_Witness ==
    /\ lastOp.op = "Registry.Get"
    /\ lastOp.prev = "s1"
    /\ lastOp.store = "s2"
    /\ lastOp.s \in mutated
    /\ "custom" \in DOMAIN heap[lastOp.s].Values
    /\ heap[lastOp.s].store = "s2"

\* A step of Flashes / AddFlash on session s and key k (every action sets lastOp).
IsFlashesStep == lastOp'.op = "Flashes"
IsAddFlashStep == lastOp'.op = "AddFlash"

\* The flashes stored under key k of session sid (none when the key is absent).
StoredFlashes(sid, k) ==
    IF k \in DOMAIN heap[sid].Values THEN heap[sid].Values[k] ELSE Slice(<<>>)

\* Entry k2 of session sid shares its backing array with entry k, so that an
\* append within capacity on one is a write into the other.
SharesArray(sid, k, k2) ==
    /\ k \in DOMAIN heap[sid].Values
    /\ k2 \in DOMAIN heap[sid].Values
    /\ heap[sid].Values[k].arr # 0
    /\ heap[sid].Values[k].arr = heap[sid].Values[k2].arr

\* C13 (as claimed): every Flashes(k) that returns, returns exactly the values
\* added by AddFlash(_, k) since the previous Flashes(k) (after those the
\* session was loaded with), in insertion order.
\* Violated: Set(k, _) and Delete(k) write the same map entry, and AddFlash on
\* another key whose slice shares k's backing array overwrites k's elements.
C13_FlashesReturnsAdded ==
    [][IsFlashesStep /\ status' = "running" =>
          /\ Elems(lastOp'.ret.seq) = given[lastOp'.s][lastOp'.key]
          /\ <<lastOp'.s, lastOp'.key>> \notin tainted =>
                lastOp'.ret.seq = added[lastOp'.s][lastOp'.key]]_vars

\* C13 (amended): for a key k that, since the previous Flashes(k), neither Set
\* nor Delete was called on and whose slice was not handed to Set under another
\* key, the value map holds under k exactly the values the session was loaded
\* with followed by those AddFlash(_, k) added, in insertion order, and
\* Flashes(k) returns them; Flashes(k) always removes the key, so an
\* immediately following Flashes(k) returns empty; Flashes on k leaves the
\* entry of every other key as it was, and so does AddFlash on k for every
\* other key whose slice does not share k's backing array.
C13_FlashesReturnsUntaintedAdded ==
    /\ [](\A sid \in Sids, k \in Keys :
             status = "running" /\ <<sid, k>> \notin tainted =>
                StoredFlashes(sid, k).seq = added[sid][k])
    /\ [][/\ IsFlashesStep /\ status' = "running"
              /\ <<lastOp'.s, lastOp'.key>> \notin tainted =>
                    lastOp'.ret.seq = added[lastOp'.s][lastOp'.key]
          /\ IsFlashesStep =>
                /\ lastOp'.key \notin DOMAIN heap'[lastOp'.s].Values
                /\ SessionFlashes(heap'[lastOp'.s], lastOp'.key).ret = <<>>
          /\ IsFlashesStep \/ IsAddFlashStep =>
                \A k \in Keys \ {lastOp'.key} :
                   IsFlashesStep \/ ~SharesArray(lastOp'.s, lastOp'.key, k) =>
                      /\ (k \in DOMAIN heap'[lastOp'.s].Values)
                            = (k \in DOMAIN heap[lastOp'.s].Values)
                      /\ SessionGet(heap'[lastOp'.s], k) = SessionGet(heap[lastOp'.s], k)
                      /\ SessionFlashes(heap'[lastOp'.s], k).ret
                            = SessionFlashes(heap[lastOp'.s], k).ret]_vars

\* Flashes("custom") returned [v1, v2] in insertion order while the default
\* key still holds the flash the session was loaded with, and no key was
\* written by Set or Delete.
C13_Witness ==
    /\ lastOp.op = "Flashes" /\ lastOp.key = "custom" /\ status = "running"
    /\ lastOp.ret = Slice(<<"v1", "v2">>)
    /\ tainted = {}
    /\ "custom" \notin DOMAIN heap[lastOp.s].Values
    /\ StoredFlashes(lastOp.s, flashesKey) = Slice(<<"v1">>)
    /\ added[lastOp.s][flashesKey] = <<"v1">>

\* C14: Get(k) immediately after Set(k, v) returns v, Get(k) immediately after
\* Delete(k) returns the absent value, and Set and Delete on k leave the
\* entries of all other keys unchanged.
C14_SetGetDelete ==
    /\ [](/\ lastOp.op = "Set" =>
                SessionGet(heap[lastOp.s], lastOp.key) = lastOp.ret
          /\ lastOp.op = "Delete" =>
                /\ SessionGet(heap[lastOp.s], lastOp.key) = NilVal
                /\ lastOp.key \notin DOMAIN heap[lastOp.s].Values)
    /\ [][/\ lastOp'.op = "Get" /\ lastOp.op = "Set"
              /\ lastOp'.s = lastOp.s /\ lastOp'.key = lastOp.key =>
                    lastOp'.ret = lastOp.ret
          /\ lastOp'.op = "Get" /\ lastOp.op = "Delete"
              /\ lastOp'.s = lastOp.s /\ lastOp'.key = lastOp.key =>
                    lastOp'.ret = NilVal
          /\ lastOp'.op \in {"Set", "Delete"} =>
                \A k \in Keys \ {lastOp'.key} :
                   /\ (k \in DOMAIN heap'[lastOp'.s].Values)
                         = (k \in DOMAIN heap[lastOp'.s].Values)
                   /\ SessionGet(heap'[lastOp'.s], k) = SessionGet(heap[lastOp'.s], k)]_vars

\* Set("custom", "x") was just called on a session that holds flashes under
\* the default key, which are still there.
C14_Witness ==
    /\ lastOp.op = "Set" /\ lastOp.key = "custom" /\ lastOp.ret = Scalar("x")
    /\ SessionGet(heap[lastOp.s], "custom") = Scalar("x")
    /\ SessionGet(heap[lastOp.s], flashesKey) = Slice(<<"v1", "v2">>)

\* A step of Get, or of Flashes on a key that has no entry in the values.
IsReadOnlyStep ==
    \/ lastOp'.op = "Get"
    \/ lastOp'.op = "Flashes" /\ lastOp'.key \notin DOMAIN heap[lastOp'.s].Values

\* C17: Session.Get(key), and Flashes(key) when nothing is stored under key,
\* leave the session's values, dirty flag, name and store (and every other
\* session) unchanged and return normally; a session starts not dirty, so
\* one on which only such operations were called is not dirty.
C17_ReadsHaveNoEffect ==
    /\ [][IsReadOnlyStep =>
              /\ heap' = heap
              /\ sessions' = sessions
              /\ status' = "running"
              /\ lastOp'.op = "Flashes" => lastOp'.ret = Slice(<<>>)]_vars
    /\ [](GetReturned /\ lastOp.prev = "" => ~heap[lastOp.s].dirty)

\* Flashes("custom") returned empty on a session that was loaded with a flash
\* under the default key and never written: the flash is still there and the
\* session is not dirty.
C17_Witness ==
    /\ lastOp.op = "Flashes" /\ lastOp.key = "custom" /\ lastOp.ret = Slice(<<>>)
    /\ lastOp.s \notin mutated
    /\ ~heap[lastOp.s].dirty
    /\ heap[lastOp.s].Values = [k \in {flashesKey} |-> Slice(<<"v1">>)]

\* C20 (as claimed): AddFlash and Flashes complete without failure after any
\* sequence of Set, Delete, AddFlash and Flashes on the session, and the value
\* AddFlash leaves under its key is a non-empty sequence.  Violated: after
\* Set(k, v) with v not a []interface{}, the type assertions of lines 114 and
\* 130 panic.
C20_FlashOpsNeverFail ==
    /\ lastOp.op \in {"AddFlash", "Flashes"} => status # "panic"
    /\ lastOp.op = "AddFlash" /\ status = "running" =>
          /\ lastOp.key \in DOMAIN heap[lastOp.s].Values
          /\ IsSlice(heap[lastOp.s].Values[lastOp.key])
          /\ Len(heap[lastOp.s].Values[lastOp.key].seq) > 0

\* C15 (as claimed): a creation, missing-store or persistence error never
\* crashes or aborts the process: Registry.Save returns its errors, a failing
\* Store.Save in the teardown flush leaves the process running, and a failing
\* Store.New in the Sessions middleware leaves it running.  Violated:
\* flushSession calls Logger().Fatalln and Sessions calls panic(err).
C15_ErrorsNeverCrash ==
    /\ lastOp.op = "Registry.Save" => status = "running"
    /\ status # "fatal"
    /\ ~(status = "panic" /\ lastOp.op = "Sessions" /\ lastOp.e = NewErr)

\* The slots of m that hold an error, and the first of them.
NonNil(m) == {i \in 1..Len(m) : m[i] # NilError}
FirstNonNil(m) == m[CHOOSE i \in NonNil(m) : \A j \in NonNil(m) : i <= j]

\* C16: MultiError.Error renders by the number n of non-nil components,
\* skipping nil slots: "(0 errors)" for n = 0; the only non-nil error's
\* message for n = 1; the first non-nil error's message followed by
\* " (and 1 other error)" for n = 2 and by " (and n-1 other errors)" for
\* n >= 3.
C16_ErrorRendering ==
    lastOp.op = "MultiError.Error" =>
        LET m == lastOp.errs
            n == Cardinality(NonNil(m))
        IN  /\ n = 0 => lastOp.ret = Str(<<"(0 errors)">>)
            /\ n = 1 => lastOp.ret = Str(ErrorString(FirstNonNil(m)))
            /\ n = 2 => lastOp.ret =
                  Str(ErrorString(FirstNonNil(m)) \o <<" (and 1 other error)">>)
            /\ n >= 3 => lastOp.ret =
                  Str(ErrorString(FirstNonNil(m))
                        \o <<" (and ", Digit(n - 1), " other errors)">>)

\* Error() was called on a MultiError that starts with a nil slot and holds
\* three errors, and rendered the first of them with "(and 2 other errors)".
C16_Witness ==
    /\ lastOp.op = "MultiError.Error"
    /\ lastOp.errs = <<NilError, SavingErr("B"), MissingStoreErr("A"), SavingErr("A")>>
    /\ lastOp.ret = Str(<<"sessions: error saving session ", "\"", "B", "\"",
                          " -- ", SaveFailed,
                          " (and ", "2", " other errors)">>)

\* After a Registry.Save: what the same call returns when the names are
\* iterated in order o.
SaveInOrder(o) == RegistrySave(o, SaveFailedNames)

\* C18 (as claimed): for every iteration order of the tracked names,
\* Registry.Save passes the same sessions to Store.Save, records the same set
\* of per-name failures and returns the same composite error with the same
\* rendered message.  Violated: the components are appended in iteration
\* order and Error() quotes the first of them.
C18_SaveOrderIrrelevant ==
    lastOp.op = "Registry.Save" =>
        \A o \in RangeOrders(Tracked) :
            /\ Range(SaveInOrder(o).calls) = Range(lastOp.calls)
            /\ Range(SaveInOrder(o).errs) = Range(lastOp.errs)
            /\ SaveInOrder(o).e = lastOp.e
            /\ SaveInOrder(o).errs = lastOp.errs
            /\ MultiErrorError(SaveInOrder(o).errs) = MultiErrorError(lastOp.errs)

\* The names of order o, in that order, whose save fails.
FailingInOrder(o) ==
    SelectSeq(o, LAMBDA n : n \in MissingNames \cup SaveFailedNames)

\* The error Registry.Save records for a failing name.
FailureOf(n) == IF n \in MissingNames THEN MissingStoreErr(n) ELSE SavingErr(n)

\* C18 (amended): for every iteration order, Registry.Save passes the same
\* sessions to Store.Save once each, records the same set and number of
\* per-name failures and returns nil in the same cases; the components of the
\* composite error are in iteration order, and its rendered message quotes
\* the failure of the first failing name of the order, followed by the same
\* count of other errors.
C18_SaveOutcomeUpToOrder ==
    lastOp.op = "Registry.Save" =>
        \A o \in RangeOrders(Tracked) :
            LET r == SaveInOrder(o)
                f == FailingInOrder(o)
            IN  /\ Range(r.calls) = Range(lastOp.calls)
                /\ Len(r.calls) = Len(lastOp.calls)
                /\ Range(r.errs) = Range(lastOp.errs)
                /\ Len(r.errs) = Len(lastOp.errs)
                /\ r.e = lastOp.e
                /\ r.errs = [i \in 1..Len(f) |-> FailureOf(f[i])]
                /\ MultiErrorError(r.errs) =
                      IF f = <<>> THEN <<"(0 errors)">>
                      ELSE ErrorSwitch(ErrorString(FailureOf(f[1])), Len(lastOp.errs))

\* Registry.Save returned two failures, a missing store and a failed save,
\* and another iteration order renders a different message.
C18_Witness ==
    /\ lastOp.op = "Registry.Save"
    /\ Len(lastOp.errs) = 2
    /\ MissingNames # {} /\ SaveFailedNames # {}
    /\ \E o \in RangeOrders(Tracked) :
          MultiErrorError(SaveInOrder(o).errs) # MultiErrorError(lastOp.errs)

\* The Registry objects.
Regs == 1..Len(registries)

\* C19: each request context has at most one Registry: GetRegistry creates
\* it on the first call for the context and stores it in the context's slot,
\* every later call on the context returns that Registry with the sessions
\* it tracks intact, and two contexts never share a Registry or a tracked
\* session.
C19_OneRegistryPerContext ==
    /\ [](/\ \A i, j \in Regs :
                registries[i].context = registries[j].context => i = j
          /\ \A i \in Regs : slot[registries[i].context] = i
          /\ \A c \in Contexts : slot[c] # 0 =>
                slot[c] \in Regs /\ registries[slot[c]].context = c
          /\ \A c, d \in Contexts : c # d /\ slot[c] # 0 => slot[c] # slot[d]
          /\ \A i, j \in Regs : i # j =>
                EntrySids(registries[i]) \cap EntrySids(registries[j]) = {}
          /\ lastReg.r # 0 => slot[lastReg.c] = lastReg.r)
    /\ [][\A c \in Contexts :
              /\ slot[c] # 0 =>
                    /\ slot'[c] = slot[c]
                    /\ registries'[slot[c]].context = c
                    /\ \A n \in DOMAIN registries[slot[c]].sessions :
                          /\ n \in DOMAIN registries'[slot[c]].sessions
                          /\ registries'[slot[c]].sessions[n]
                                = registries[slot[c]].sessions[n]
                    /\ lastReg'.c = c => lastReg'.r = slot[c] /\ ~lastReg'.fresh
              /\ slot[c] = 0 /\ slot'[c] # 0 =>
                    /\ lastReg' = [c |-> c, r |-> slot'[c], fresh |-> TRUE]
                    /\ slot'[c] = Len(registries) + 1
              /\ slot[c] = 0 /\ lastReg'.c = c /\ lastReg' # lastReg =>
                    slot'[c] # 0]_vars

\* Both contexts have their Registry, each tracks its own session for name
\* "A", and a later GetRegistry on c1 returned the Registry created for c1.
C19_Witness ==
    /\ lastOp.op = "GetRegistry"
    /\ lastReg.c = "c1" /\ ~lastReg.fresh /\ lastReg.r = slot["c1"]
    /\ slot["c2"] # 0
    /\ "A" \in DOMAIN registries[slot["c1"]].sessions
    /\ "A" \in DOMAIN registries[slot["c2"]].sessions
    /\ registries[slot["c1"]].sessions["A"].s # registries[slot["c2"]].sessions["A"].s

====
